---- MODULE Spec2Model ----
(***************************************************************************)
(* Model of two files of ruma:                                             *)
(*   crates/ruma-common/src/events/key/verification.rs                     *)
(*       the open string enumerations of the m.key.verification namespace  *)
(*   crates/ruma-client-api/src/media/get_content_thumbnail.rs             *)
(*       the thumbnail endpoint: METADATA, Request, Response, Method       *)
(*                                                                         *)
(* Strings are TLA+ strings; a character is a string of length 1, taken    *)
(* with SubSeq(s, i, i).  The code is a set of pure functions, so a        *)
(* behaviour of the model is one caller scenario: it starts idle, picks    *)
(* its inputs and applies the operations one after the other.              *)
(***************************************************************************)
EXTENDS Integers, Sequences, FiniteSets, TLC

VARIABLES
    features,   \* the cargo features the crate was built with
    stage,      \* where the caller's scenario stands
    en,         \* the open-enumeration scenario
    rq,         \* the thumbnail request scenario
    rs          \* the thumbnail response scenario

vars == <<features, stage, en, rq, rs>>

(***************************************************************************)
(* Bounds of the model.                                                    *)
(***************************************************************************)
\* longest arbitrary wire string (over FillChars) handed to an enum parser
MaxCustomLen == 2
\* longest response body
MaxBodyLen == 2
\* largest minor version v1.m a caller asks for
MaxMinor == 2
\* widths and heights 0..MaxDim are tried beside 64
MaxDim == 0

(***************************************************************************)
(* Characters and strings.                                                 *)
(***************************************************************************)
UpperAlphabet == "ABCDEFGHIJKLMNOPQRSTUVWXYZ"
LowerAlphabet == "abcdefghijklmnopqrstuvwxyz"
DigitAlphabet == "0123456789"

CharAt(s, i) == SubSeq(s, i, i)

CharsOf(s) == {CharAt(s, i) : i \in 1..Len(s)}

IsUpper(c) == c \in CharsOf(UpperAlphabet)

ToLower(c) ==
    IF IsUpper(c)
    THEN CharAt(LowerAlphabet, CHOOSE i \in 1..Len(UpperAlphabet) : CharAt(UpperAlphabet, i) = c)
    ELSE c

ToUpper(c) ==
    IF c \in CharsOf(LowerAlphabet)
    THEN CharAt(UpperAlphabet, CHOOSE i \in 1..Len(LowerAlphabet) : CharAt(LowerAlphabet, i) = c)
    ELSE c

RECURSIVE UpperFrom(_, _)
\* s from position i on, in upper case
UpperFrom(s, i) ==
    IF i > Len(s) THEN "" ELSE ToUpper(CharAt(s, i)) \o UpperFrom(s, i + 1)

UpperCased(s) == UpperFrom(s, 1)

Capitalized(s) == IF s = "" THEN "" ELSE ToUpper(CharAt(s, 1)) \o SubSeq(s, 2, Len(s))

\* position of the first occurrence of character c in s at or after i, 0 if none
RECURSIVE FindChar(_, _, _)
FindChar(s, c, i) ==
    IF i > Len(s) THEN 0
    ELSE IF CharAt(s, i) = c THEN i
    ELSE FindChar(s, c, i + 1)

StartsWith(s, p) == Len(s) >= Len(p) /\ SubSeq(s, 1, Len(p)) = p

\* s cut at every occurrence of character c
RECURSIVE Split(_, _)
Split(s, c) ==
    LET k == FindChar(s, c, 1) IN
    IF k = 0 THEN <<s>>
    ELSE <<SubSeq(s, 1, k - 1)>> \o Split(SubSeq(s, k + 1, Len(s)), c)

RECURSIVE Join(_, _)
Join(parts, c) ==
    IF Len(parts) = 0 THEN ""
    ELSE IF Len(parts) = 1 THEN parts[1]
    ELSE parts[1] \o c \o Join(Tail(parts), c)

None == <<>>
Some(x) == <<x>>

(***************************************************************************)
(* The open enumerations, as declared.  A declaration is the derive list,  *)
(* the #[ruma_enum(rename_all = ...)] rule ("" when there is none) and the *)
(* known variants in declaration order: name, #[ruma_enum(rename = ...)]   *)
(* ("" when there is none) and the #[cfg(feature = ...)] that gates the    *)
(* variant ("" when there is none).  The hidden _Custom(PrivOwnedStr)      *)
(* variant every one of them ends with is the tag "_Custom" of a value.    *)
(***************************************************************************)
Variant(name, rename, cfg) == [name |-> name, rename |-> rename, cfg |-> cfg]

HashAlgorithm ==
    [derives |-> {"Clone", "Debug", "PartialEq", "Eq", "StringEnum"},
     rename_all |-> "snake_case",
     variants |-> <<Variant("Sha256", "", "")>>]

\* faulty variant: KeyAgreementProtocol under the rename rule of its neighbours
KeyAgreementProtocol_snake_case ==
    [derives |-> {"Clone", "Debug", "PartialEq", "Eq", "StringEnum"},
     rename_all |-> "snake_case",
     variants |-> <<Variant("Curve25519", "", ""),
                    Variant("Curve25519HkdfSha256", "", "")>>]

KeyAgreementProtocol ==
    [derives |-> {"Clone", "Debug", "PartialEq", "Eq", "StringEnum"},
     rename_all |-> "kebab-case",
     variants |-> <<Variant("Curve25519", "", ""),
                    Variant("Curve25519HkdfSha256", "", "")>>]

MessageAuthenticationCode ==
    [derives |-> {"Clone", "Debug", "PartialEq", "Eq", "StringEnum"},
     rename_all |-> "kebab-case",
     variants |-> <<Variant("HkdfHmacSha256", "", ""),
                    Variant("HkdfHmacSha256V2", "org.matrix.msc3783.hkdf-hmac-sha256",
                            "unstable-msc3783"),
                    Variant("HmacSha256", "", "")>>]

ShortAuthenticationString ==
    [derives |-> {"Clone", "Debug", "PartialEq", "Eq", "StringEnum"},
     rename_all |-> "snake_case",
     variants |-> <<Variant("Decimal", "", ""), Variant("Emoji", "", "")>>]

VerificationMethod ==
    [derives |-> {"Clone", "Debug", "PartialEq", "Eq", "StringEnum"},
     rename_all |-> "",
     variants |-> <<Variant("SasV1", "m.sas.v1", ""),
                    Variant("QrCodeScanV1", "m.qr_code.scan.v1", ""),
                    Variant("QrCodeShowV1", "m.qr_code.show.v1", ""),
                    Variant("ReciprocateV1", "m.reciprocate.v1", "")>>]

\* faulty variant: Method without its rename_all attribute
Method_no_rename ==
    [derives |-> {"Clone", "Debug", "StringEnum"},
     rename_all |-> "",
     variants |-> <<Variant("Crop", "", ""), Variant("Scale", "", "")>>]

Method ==
    [derives |-> {"Clone", "Debug", "StringEnum"},
     rename_all |-> "snake_case",
     variants |-> <<Variant("Crop", "", ""), Variant("Scale", "", "")>>]

EnumTypes ==
    {"HashAlgorithm", "KeyAgreementProtocol", "MessageAuthenticationCode",
     "ShortAuthenticationString", "VerificationMethod", "Method"}

EnumDecl(e) ==
    CASE e = "HashAlgorithm" -> HashAlgorithm
      [] e = "KeyAgreementProtocol" -> KeyAgreementProtocol
      [] e = "MessageAuthenticationCode" -> MessageAuthenticationCode
      [] e = "ShortAuthenticationString" -> ShortAuthenticationString
      [] e = "VerificationMethod" -> VerificationMethod
      [] e = "Method" -> Method

Features == {"unstable-msc3783", "unstable-msc2246"}

\* the known variants that exist in a build with the features feats
ActiveVariants(e, feats) ==
    SelectSeq(EnumDecl(e).variants, LAMBDA v : v.cfg = "" \/ v.cfg \in feats)

VariantNames(e, feats) ==
    {ActiveVariants(e, feats)[i].name : i \in 1..Len(ActiveVariants(e, feats))}

(***************************************************************************)
(* What #[derive(StringEnum)] generates (ruma-macros).                     *)
(***************************************************************************)
\* snake_case of a CamelCase variant name: every upper-case letter is
\* lower-cased, and preceded by '_' unless it is the first character
RECURSIVE SnakeFrom(_, _)
SnakeFrom(name, i) ==
    IF i > Len(name) THEN ""
    ELSE LET c == CharAt(name, i) IN
         (IF IsUpper(c) /\ i > 1 THEN "_" ELSE "") \o ToLower(c) \o SnakeFrom(name, i + 1)

snake_case(name) == SnakeFrom(name, 1)

\* kebab-case is snake_case with every '_' replaced by '-'
kebab_case(name) == Join(Split(snake_case(name), "_"), "-")

apply_rename_rule(rule, name) ==
    CASE rule = "snake_case" -> snake_case(name)
      [] rule = "kebab-case" -> kebab_case(name)
      [] OTHER -> name

\* the wire string of a known variant
variant_str(e, v) ==
    IF v.rename # "" THEN v.rename ELSE apply_rename_rule(EnumDecl(e).rename_all, v.name)

Known(e, name) == [ty |-> e, tag |-> name, str |-> ""]
Custom(e, s) == [ty |-> e, tag |-> "_Custom", str |-> s]

\* impl From<T: AsRef<str> + Into<Box<str>>>: the first known variant, in
\* declaration order, whose wire string is s, else _Custom(s)
from_str(e, s, feats) ==
    LET vs == ActiveVariants(e, feats)
        hits == {i \in 1..Len(vs) : variant_str(e, vs[i]) = s}
    IN IF hits = {} THEN Custom(e, s)
       ELSE Known(e, vs[CHOOSE i \in hits : \A j \in hits : i <= j].name)

\* impl AsRef<str>
as_str(v, feats) ==
    IF v.tag = "_Custom" THEN v.str
    ELSE LET vs == ActiveVariants(v.ty, feats)
             i == CHOOSE k \in 1..Len(vs) : vs[k].name = v.tag
         IN variant_str(v.ty, vs[i])

is_known(v) == v.tag # "_Custom"

\* faulty variant: an equality that looks at the variant and not at its string
enum_eq_by_variant(a, b) ==
    IF "PartialEq" \notin EnumDecl(a.ty).derives
    THEN [implemented |-> FALSE, equal |-> FALSE]
    ELSE [implemented |-> TRUE, equal |-> a.tag = b.tag]

\* #[derive(PartialEq)] on an enum: the same variant with equal payloads.
\* implemented is FALSE for an enumeration that derives no PartialEq: there
\* is no == on its values.
enum_eq(a, b) ==
    IF "PartialEq" \notin EnumDecl(a.ty).derives
    THEN [implemented |-> FALSE, equal |-> FALSE]
    ELSE [implemented |-> TRUE,
          equal |-> a.tag = b.tag /\ (a.tag = "_Custom" => a.str = b.str)]


(***************************************************************************)
(* get_content_thumbnail::v3: the endpoint's metadata.                     *)
(* A version is <<major, minor>>.                                          *)
(***************************************************************************)
\* faulty variant: the two templates under each other's version
METADATA_swapped_paths ==
    [method |-> "GET",
     rate_limited |-> TRUE,
     authentication |-> "None",
     history |-> <<[version |-> <<1, 0>>,
                    path |-> "/_matrix/media/v3/thumbnail/:server_name/:media_id"],
                   [version |-> <<1, 1>>,
                    path |-> "/_matrix/media/r0/thumbnail/:server_name/:media_id"]>>]

\* faulty variant: the templates under the client API's prefix
METADATA_client_prefix ==
    [method |-> "GET",
     rate_limited |-> TRUE,
     authentication |-> "None",
     history |-> <<[version |-> <<1, 0>>,
                    path |-> "/_matrix/client/r0/thumbnail/:server_name/:media_id"],
                   [version |-> <<1, 1>>,
                    path |-> "/_matrix/client/v3/thumbnail/:server_name/:media_id"]>>]

METADATA ==
    [method |-> "GET",
     rate_limited |-> TRUE,
     authentication |-> "None",
     history |-> <<[version |-> <<1, 0>>,
                    path |-> "/_matrix/media/r0/thumbnail/:server_name/:media_id"],
                   [version |-> <<1, 1>>,
                    path |-> "/_matrix/media/v3/thumbnail/:server_name/:media_id"]>>]

VersionLeq(a, b) == a[1] < b[1] \/ (a[1] = b[1] /\ a[2] <= b[2])

Ok(x) == [ok |-> TRUE, val |-> x, err |-> ""]
Err(e) == [ok |-> FALSE, val |-> None, err |-> e]

\* the entry of the history with the greatest version <= requested, or
\* UnsupportedVersion when requested is below every entry
resolve_path(meta, requested) ==
    LET h == meta.history
        below == {i \in 1..Len(h) : VersionLeq(h[i].version, requested)}
    IN IF below = {} THEN Err("UnsupportedVersion")
       ELSE Ok(h[CHOOSE i \in below :
                   \A j \in below : VersionLeq(h[j].version, h[i].version)].path)

(***************************************************************************)
(* The Request struct: its fields in declaration order, each with its wire *)
(* location, its name on the wire and the feature that gates it.           *)
(***************************************************************************)
Field(name, location, wire, cfg) ==
    [name |-> name, location |-> location, wire |-> wire, cfg |-> cfg]

\* faulty variant: media_id tagged query instead of path
RequestFields_media_id_in_query ==
    <<Field("server_name", "path", "server_name", ""),
      Field("media_id", "query", "media_id", ""),
      Field("method", "query", "method", ""),
      Field("width", "query", "width", ""),
      Field("height", "query", "height", ""),
      Field("allow_remote", "query", "allow_remote", ""),
      Field("max_stall_ms", "query", "fi.mau.msc2246.max_stall_ms", "unstable-msc2246")>>

RequestFields ==
    <<Field("server_name", "path", "server_name", ""),
      Field("media_id", "path", "media_id", ""),
      Field("method", "query", "method", ""),
      Field("width", "query", "width", ""),
      Field("height", "query", "height", ""),
      Field("allow_remote", "query", "allow_remote", ""),
      Field("max_stall_ms", "query", "fi.mau.msc2246.max_stall_ms", "unstable-msc2246")>>

PathFieldNames ==
    {RequestFields[i].name : i \in {k \in 1..Len(RequestFields) : RequestFields[k].location = "path"}}

WireName(field) ==
    RequestFields[CHOOSE i \in 1..Len(RequestFields) : RequestFields[i].name = field].wire

\* Request::new.  max_stall_ms exists only with unstable-msc2246; without
\* the feature the model keeps it None and never reads it.
Request_new(media_id, server_name, width, height) ==
    [server_name |-> server_name,
     media_id |-> media_id,
     method |-> None,
     width |-> width,
     height |-> height,
     allow_remote |-> TRUE,
     max_stall_ms |-> None]

(***************************************************************************)
(* MxcUri::parts: mxc://<server name>/<media id>.                          *)
(***************************************************************************)
ServerNameChars == CharsOf(LowerAlphabet) \cup CharsOf(UpperAlphabet) \cup CharsOf(DigitAlphabet)
                       \cup {".", "-", ":"}

is_server_name(s) == s # "" /\ CharsOf(s) \subseteq ServerNameChars

MXC_PROTOCOL == "mxc://"

MxcUri_parts(uri) ==
    IF ~StartsWith(uri, MXC_PROTOCOL) THEN Err("MalformedUri")
    ELSE LET rest == SubSeq(uri, Len(MXC_PROTOCOL) + 1, Len(uri))
             k == FindChar(rest, "/", 1)
         IN IF k = 0 THEN Err("MalformedUri")
            ELSE IF ~is_server_name(SubSeq(rest, 1, k - 1)) THEN Err("MalformedUri")
            ELSE Ok([server_name |-> SubSeq(rest, 1, k - 1),
                     media_id |-> SubSeq(rest, k + 1, Len(rest))])

\* faulty variant: the parts handed to Request::new in the order parts() gives them
from_url_swapped(url, width, height) ==
    LET p == MxcUri_parts(url) IN
    IF ~p.ok THEN Err(p.err)
    ELSE Ok(Request_new(p.val.server_name, p.val.media_id, width, height))

\* faulty variant: the error of parts() dropped and an empty request built
from_url_unchecked(url, width, height) ==
    LET p == MxcUri_parts(url) IN
    IF ~p.ok THEN Ok(Request_new("", "", width, height))
    ELSE Ok(Request_new(p.val.media_id, p.val.server_name, width, height))

\* Request::from_url: `?` returns the error of parts(), else Request::new
from_url(url, width, height) ==
    LET p == MxcUri_parts(url) IN
    IF ~p.ok THEN Err(p.err)
    ELSE Ok(Request_new(p.val.media_id, p.val.server_name, width, height))


(***************************************************************************)
(* Values on the wire: unsigned integers in decimal, booleans as           *)
(* true/false.                                                             *)
(***************************************************************************)
RECURSIVE DecStr(_)
DecStr(n) ==
    IF n < 10 THEN CharAt(DigitAlphabet, n + 1)
    ELSE DecStr(n \div 10) \o CharAt(DigitAlphabet, (n % 10) + 1)

DigitValue(c) == (CHOOSE i \in 1..Len(DigitAlphabet) : CharAt(DigitAlphabet, i) = c) - 1

RECURSIVE DecValue(_, _)
\* the value of the first n characters of the digit string s
DecValue(s, n) ==
    IF n = 0 THEN 0 ELSE 10 * DecValue(s, n - 1) + DigitValue(CharAt(s, n))

parse_uint(s) ==
    IF s # "" /\ CharsOf(s) \subseteq CharsOf(DigitAlphabet)
    THEN Ok(DecValue(s, Len(s)))
    ELSE Err("FieldDecodeError")

BoolStr(b) == IF b THEN "true" ELSE "false"

parse_bool(s) ==
    CASE s = "true" -> Ok(TRUE)
      [] s = "false" -> Ok(FALSE)
      [] OTHER -> Err("FieldDecodeError")

\* ruma_common::serde::default_true and is_true
default_true == TRUE
is_true(b) == b

(***************************************************************************)
(* The query string of a Request: one name=value pair per query field, in  *)
(* declaration order, a field left out as its serde attributes say.        *)
(***************************************************************************)
Pair(field, value) == <<WireName(field) \o "=" \o value>>

\* #[serde(skip_serializing_if = "Option::is_none")] method: Option<Method>
query_method(req, feats) ==
    IF req.method = None THEN <<>> ELSE Pair("method", as_str(req.method[1], feats))

query_width(req) == Pair("width", DecStr(req.width))

query_height(req) == Pair("height", DecStr(req.height))

\* faulty variant: allow_remote written whatever its value
query_allow_remote_always(req) == Pair("allow_remote", BoolStr(req.allow_remote))

\* #[serde(default = "default_true", skip_serializing_if = "is_true")]
query_allow_remote(req) ==
    IF is_true(req.allow_remote) THEN <<>>
    ELSE Pair("allow_remote", BoolStr(req.allow_remote))

\* #[cfg(feature = "unstable-msc2246")]
\* #[serde(default, skip_serializing_if = "is_default", rename = ...)]
query_max_stall_ms(req, feats) ==
    IF "unstable-msc2246" \notin feats \/ req.max_stall_ms = None THEN <<>>
    ELSE Pair("max_stall_ms", DecStr(req.max_stall_ms[1]))

query_string(req, feats) ==
    Join(query_method(req, feats) \o query_width(req) \o query_height(req)
             \o query_allow_remote(req) \o query_max_stall_ms(req, feats), "&")

(***************************************************************************)
(* The path of a Request: every :name segment of the template replaced by  *)
(* the path field of that name.                                            *)
(***************************************************************************)
IsPlaceholder(seg) == StartsWith(seg, ":")

PlaceholderName(seg) == SubSeq(seg, 2, Len(seg))

\* the placeholders of a template, in order
PlaceholderSeq(template) ==
    LET segs == SelectSeq(Split(template, "/"), IsPlaceholder)
    IN [i \in 1..Len(segs) |-> PlaceholderName(segs[i])]

Placeholders(template) ==
    {PlaceholderSeq(template)[i] : i \in 1..Len(PlaceholderSeq(template))}

\* the template up to its first placeholder
LiteralPrefix(template) ==
    LET k == FindChar(template, ":", 1)
    IN IF k = 0 THEN template ELSE SubSeq(template, 1, k - 1)

PathArg(req, name) ==
    CASE name = "server_name" -> req.server_name
      [] name = "media_id" -> req.media_id

make_path(template, req) ==
    LET segs == Split(template, "/")
    IN Join([i \in 1..Len(segs) |->
                IF IsPlaceholder(segs[i]) THEN PathArg(req, PlaceholderName(segs[i]))
                ELSE segs[i]], "/")

\* OutgoingRequest::try_into_http_request, for a caller asking for version
try_into_http_request(req, version, feats) ==
    LET r == resolve_path(METADATA, version) IN
    IF ~r.ok THEN Err(r.err)
    ELSE Ok([method |-> METADATA.method,
             template |-> r.val,
             path |-> make_path(r.val, req),
             query |-> query_string(req, feats)])

(***************************************************************************)
(* IncomingRequest::try_from_http_request.                                 *)
(***************************************************************************)
QueryPairs(q) ==
    LET parts == SelectSeq(Split(q, "&"), LAMBDA p : p # "")
    IN [i \in 1..Len(parts) |->
           LET k == FindChar(parts[i], "=", 1)
           IN IF k = 0 THEN <<parts[i], "">>
              ELSE <<SubSeq(parts[i], 1, k - 1), SubSeq(parts[i], k + 1, Len(parts[i]))>>]

\* the value of the first pair named name, None when there is none
QueryGet(q, field) ==
    LET ps == QueryPairs(q)
        hits == {i \in 1..Len(ps) : ps[i][1] = WireName(field)}
    IN IF hits = {} THEN None
       ELSE Some(ps[CHOOSE i \in hits : \A j \in hits : i <= j][2])

\* the path arguments of path under template, None when it does not match
PathArgs(template, path) ==
    LET ts == Split(template, "/")
        ps == Split(path, "/")
    IN IF Len(ts) # Len(ps) THEN None
       ELSE IF \E i \in 1..Len(ts) : ~IsPlaceholder(ts[i]) /\ ts[i] # ps[i] THEN None
       ELSE Some([n \in Placeholders(template) |->
                    ps[CHOOSE i \in 1..Len(ts) :
                          IsPlaceholder(ts[i]) /\ PlaceholderName(ts[i]) = n]])

try_from_http_request(http, feats) ==
    LET h == METADATA.history
        hits == {i \in 1..Len(h) : PathArgs(h[i].path, http.path) # None}
        args == PathArgs(h[CHOOSE i \in hits : TRUE].path, http.path)[1]
        method == QueryGet(http.query, "method")
        width == QueryGet(http.query, "width")
        height == QueryGet(http.query, "height")
        allow_remote == QueryGet(http.query, "allow_remote")
        max_stall_ms == QueryGet(http.query, "max_stall_ms")
    IN IF hits = {} THEN Err("NotFound")
       ELSE IF ~is_server_name(args["server_name"]) THEN Err("FieldDecodeError")
       ELSE IF width = None \/ height = None THEN Err("FieldDecodeError")
       ELSE IF ~parse_uint(width[1]).ok \/ ~parse_uint(height[1]).ok THEN Err("FieldDecodeError")
       ELSE IF allow_remote # None /\ ~parse_bool(allow_remote[1]).ok THEN Err("FieldDecodeError")
       ELSE IF "unstable-msc2246" \in feats /\ max_stall_ms # None
                  /\ ~parse_uint(max_stall_ms[1]).ok THEN Err("FieldDecodeError")
       ELSE Ok([server_name |-> args["server_name"],
                media_id |-> args["media_id"],
                method |-> IF method = None THEN None
                           ELSE Some(from_str("Method", method[1], feats)),
                width |-> parse_uint(width[1]).val,
                height |-> parse_uint(height[1]).val,
                allow_remote |-> IF allow_remote = None THEN default_true
                                 ELSE parse_bool(allow_remote[1]).val,
                max_stall_ms |-> IF "unstable-msc2246" \in feats /\ max_stall_ms # None
                                 THEN Some(parse_uint(max_stall_ms[1]).val)
                                 ELSE None])

(***************************************************************************)
(* The Response struct.                                                    *)
(***************************************************************************)
CONTENT_TYPE == "content-type"
CROSS_ORIGIN_RESOURCE_POLICY == "cross-origin-resource-policy"

\* faulty variant: the policy left unset
Response_new_no_policy(file) ==
    [file |-> file,
     content_type |-> None,
     cross_origin_resource_policy |-> None]

Response_new(file) ==
    [file |-> file,
     content_type |-> None,
     cross_origin_resource_policy |-> Some("cross-origin")]

\* one header line per field that is Some
HeaderLine(name, value) == IF value = None THEN <<>> ELSE <<<<name, value[1]>>>>

\* OutgoingResponse::try_into_http_response
try_into_http_response(resp) ==
    [headers |-> HeaderLine(CONTENT_TYPE, resp.content_type)
                     \o HeaderLine(CROSS_ORIGIN_RESOURCE_POLICY,
                                   resp.cross_origin_resource_policy),
     body |-> resp.file]

HeaderValues(http, name) ==
    SelectSeq(http.headers, LAMBDA h : h[1] = name)

HeaderGet(http, name) ==
    IF Len(HeaderValues(http, name)) = 0 THEN None ELSE Some(HeaderValues(http, name)[1][2])

\* IncomingResponse::try_from_http_response
try_from_http_response(http) ==
    [file |-> http.body,
     content_type |-> HeaderGet(http, CONTENT_TYPE),
     cross_origin_resource_policy |-> HeaderGet(http, CROSS_ORIGIN_RESOURCE_POLICY)]


(***************************************************************************)
(* The inputs a caller draws from.                                         *)
(***************************************************************************)
\* the wire strings the Matrix specification documents for the enumerations
DocumentedStrings ==
    {"sha256", "curve25519", "curve25519-hkdf-sha256", "hkdf-hmac-sha256",
     "org.matrix.msc3783.hkdf-hmac-sha256", "hmac-sha256", "decimal", "emoji",
     "m.sas.v1", "m.qr_code.scan.v1", "m.qr_code.show.v1", "m.reciprocate.v1",
     "crop", "scale"}

FillChars == {"a", "-"}

RECURSIVE FillStrings(_)
\* every string over FillChars of length n or less
FillStrings(n) ==
    IF n = 0 THEN {""}
    ELSE FillStrings(n - 1)
             \cup {s \o c : s \in {x \in FillStrings(n - 1) : Len(x) = n - 1}, c \in FillChars}

\* documented strings, the same in another letter case or with the other
\* separator, Rust variant names, and arbitrary short strings
WireStrings ==
    DocumentedStrings
        \cup {UpperCased(s) : s \in DocumentedStrings}
        \cup {Capitalized(s) : s \in DocumentedStrings}
        \cup {"curve25519_hkdf_sha256", "hkdf_hmac_sha256", "Curve25519HkdfSha256",
              "HkdfHmacSha256V2", "m.sas.v2", "_Custom"}
        \cup FillStrings(MaxCustomLen)

Dims == 0..MaxDim \cup {64}

ServerNames == {"example.org", "matrix.org:8448"}

MediaIds == {"abc123", "Xy-_9", ""}

Versions == {<<0, 9>>} \cup {<<1, m>> : m \in 0..MaxMinor}

Bytes == {0, 255}

RECURSIVE ByteStrings(_)
ByteStrings(n) ==
    IF n = 0 THEN {<<>>}
    ELSE ByteStrings(n - 1)
             \cup {Append(s, b) : s \in {x \in ByteStrings(n - 1) : Len(x) = n - 1}, b \in Bytes}

(***************************************************************************)
(* State.                                                                  *)
(***************************************************************************)
NoValue == Known("", "")
NoRequest == Request_new("", "", 0, 0)
NoResponse == [file |-> <<>>, content_type |-> None, cross_origin_resource_policy |-> None]

En0 ==
    [ty |-> "", input |-> "", value |-> NoValue, output |-> "", back |-> NoValue,
     other |-> NoValue, eq |-> [implemented |-> FALSE, equal |-> FALSE]]

Rq0 ==
    [via |-> "", uri |-> "",
     given |-> [wellformed |-> FALSE, server_name |-> "", media_id |-> ""],
     width |-> 0, height |-> 0,
     built |-> Err(""), req |-> NoRequest, edited |-> FALSE,
     version |-> <<0, 0>>, http |-> Err(""), parsed |-> Err("")]

Rs0 ==
    [file |-> <<>>, resp |-> NoResponse, edited |-> FALSE,
     http |-> [headers |-> <<>>, body |-> <<>>],
     parsed |-> NoResponse]

Init ==
    /\ features \in SUBSET Features
    /\ stage = "idle"
    /\ en = En0
    /\ rq = Rq0
    /\ rs = Rs0

(***************************************************************************)
(* The open-enumeration scenario.                                          *)
(***************************************************************************)
\* Enum::from(s)
EnumFromStr(e, s) ==
    /\ stage = "idle"
    /\ en' = [en EXCEPT !.ty = e, !.input = s, !.value = from_str(e, s, features)]
    /\ stage' = "enum_parsed"
    /\ UNCHANGED <<features, rq, rs>>

\* a known variant named in the program text
EnumSelect(e, name) ==
    /\ stage = "idle"
    /\ name \in VariantNames(e, features)
    /\ en' = [en EXCEPT !.ty = e, !.value = Known(e, name)]
    /\ stage' = "enum_selected"
    /\ UNCHANGED <<features, rq, rs>>

\* value.as_str(), which Display and Serialize write out
EnumAsStr ==
    /\ stage \in {"enum_parsed", "enum_selected"}
    /\ en' = [en EXCEPT !.output = as_str(en.value, features)]
    /\ stage' = IF stage = "enum_parsed" THEN "enum_parsed_serialized"
                ELSE "enum_selected_serialized"
    /\ UNCHANGED <<features, rq, rs>>

\* the serialized string parsed back
EnumReparse ==
    /\ stage \in {"enum_parsed_serialized", "enum_selected_serialized"}
    /\ en' = [en EXCEPT !.back = from_str(en.ty, en.output, features)]
    /\ stage' = IF stage = "enum_parsed_serialized" THEN "enum_parsed_roundtrip"
                ELSE "enum_selected_roundtrip"
    /\ UNCHANGED <<features, rq, rs>>

\* the values the parsed value is compared with: every known variant, a
\* second parse of the same string, and parses of the short strings
Comparands(e, s, feats) ==
    {Known(e, n) : n \in VariantNames(e, feats)}
        \cup {from_str(e, t, feats) : t \in {s} \cup FillStrings(MaxCustomLen)}

\* value == other
EnumCompare ==
    /\ stage = "enum_parsed"
    /\ \E other \in Comparands(en.ty, en.input, features) :
           en' = [en EXCEPT !.other = other, !.eq = enum_eq(en.value, other)]
    /\ stage' = "enum_compared"
    /\ UNCHANGED <<features, rq, rs>>


(***************************************************************************)
(* The thumbnail request scenario.                                         *)
(***************************************************************************)
\* Request::new(media_id, server_name, width, height)
RequestNew(media_id, server_name, width, height) ==
    /\ stage = "idle"
    /\ rq' = [rq EXCEPT !.via = "new",
                        !.given = [wellformed |-> TRUE, server_name |-> server_name,
                                   media_id |-> media_id],
                        !.width = width, !.height = height,
                        !.built = Ok(Request_new(media_id, server_name, width, height)),
                        !.req = Request_new(media_id, server_name, width, height)]
    /\ stage' = "req_built"
    /\ UNCHANGED <<features, en, rs>>

\* the content URIs a caller holds: scheme, authority and, after a slash,
\* the media id; given records what the URI was written from
ContentUris ==
    {[uri |-> scheme \o server \o (IF slash THEN "/" \o media ELSE ""),
      given |-> [wellformed |-> scheme = "mxc://" /\ server \in ServerNames /\ slash,
                 server_name |-> server, media_id |-> media]] :
        scheme \in {"mxc://", "http://", ""},
        server \in ServerNames \cup {"", "ex_ample.org"},
        slash \in BOOLEAN,
        media \in MediaIds}

\* Request::from_url(url, width, height)
RequestFromUrl(u, width, height) ==
    /\ stage = "idle"
    /\ rq' = [rq EXCEPT !.via = "from_url", !.uri = u.uri, !.given = u.given,
                        !.width = width, !.height = height,
                        !.built = from_url(u.uri, width, height),
                        !.req = IF from_url(u.uri, width, height).ok
                                THEN from_url(u.uri, width, height).val
                                ELSE NoRequest]
    /\ stage' = IF from_url(u.uri, width, height).ok THEN "req_built" ELSE "req_failed"
    /\ UNCHANGED <<features, en, rs>>

Methods ==
    {None} \cup {Some(Known("Method", n)) : n \in {"Crop", "Scale"}}
           \cup {Some(from_str("Method", "a", {}))}

\* the caller assigns the public fields Request::new leaves at their defaults
RequestSetFields(method, allow_remote, max_stall_ms) ==
    /\ stage = "req_built"
    /\ max_stall_ms # None => "unstable-msc2246" \in features
    /\ rq' = [rq EXCEPT !.req = [rq.req EXCEPT !.method = method,
                                               !.allow_remote = allow_remote,
                                               !.max_stall_ms = max_stall_ms],
                        !.edited = TRUE]
    /\ stage' = "req_edited"
    /\ UNCHANGED <<features, en, rs>>

\* request.try_into_http_request(.., version)
TryIntoHttpRequest(version) ==
    /\ stage \in {"req_built", "req_edited"}
    /\ rq' = [rq EXCEPT !.version = version,
                        !.http = try_into_http_request(rq.req, version, features)]
    /\ stage' = IF try_into_http_request(rq.req, version, features).ok
                THEN "req_sent" ELSE "req_unsupported"
    /\ UNCHANGED <<features, en, rs>>

\* Request::try_from_http_request on the receiving side
TryFromHttpRequest ==
    /\ stage = "req_sent"
    /\ rq' = [rq EXCEPT !.parsed = try_from_http_request(rq.http.val, features)]
    /\ stage' = "req_received"
    /\ UNCHANGED <<features, en, rs>>

(***************************************************************************)
(* The thumbnail response scenario.                                        *)
(***************************************************************************)
\* Response::new(file)
ResponseNew(file) ==
    /\ stage = "idle"
    /\ rs' = [rs EXCEPT !.file = file, !.resp = Response_new(file)]
    /\ stage' = "resp_built"
    /\ UNCHANGED <<features, en, rq>>

ContentTypes == {"image/png", "image/jpeg"}

\* the server assigns the public field content_type
ResponseSetContentType(content_type) ==
    /\ stage = "resp_built"
    /\ ~rs.edited
    /\ rs' = [rs EXCEPT !.resp = [rs.resp EXCEPT !.content_type = Some(content_type)],
                        !.edited = TRUE]
    /\ stage' = "resp_built"
    /\ UNCHANGED <<features, en, rq>>

\* response.try_into_http_response()
TryIntoHttpResponse ==
    /\ stage = "resp_built"
    /\ rs' = [rs EXCEPT !.http = try_into_http_response(rs.resp)]
    /\ stage' = "resp_sent"
    /\ UNCHANGED <<features, en, rq>>

\* Response::try_from_http_response on the receiving side
TryFromHttpResponse ==
    /\ stage = "resp_sent"
    /\ rs' = [rs EXCEPT !.parsed = try_from_http_response(rs.http)]
    /\ stage' = "resp_received"
    /\ UNCHANGED <<features, en, rq>>

Next ==
    \/ \E e \in EnumTypes, s \in WireStrings : EnumFromStr(e, s)
    \/ \E e \in EnumTypes : \E name \in VariantNames(e, Features) : EnumSelect(e, name)
    \/ EnumAsStr
    \/ EnumReparse
    \/ EnumCompare
    \/ \E m \in MediaIds, s \in ServerNames, w \in Dims, h \in Dims : RequestNew(m, s, w, h)
    \/ \E u \in ContentUris, w \in Dims, h \in Dims : RequestFromUrl(u, w, h)
    \/ \E m \in Methods, a \in BOOLEAN, t \in {None, Some(0)} : RequestSetFields(m, a, t)
    \/ \E v \in Versions : TryIntoHttpRequest(v)
    \/ TryFromHttpRequest
    \/ \E f \in ByteStrings(MaxBodyLen) : ResponseNew(f)
    \/ \E c \in ContentTypes : ResponseSetContentType(c)
    \/ TryIntoHttpResponse
    \/ TryFromHttpResponse

Spec == Init /\ [][Next]_vars


(***************************************************************************)
(* Properties.                                                             *)
(***************************************************************************)
\* the wire string the Matrix specification gives each known variant
CanonicalWire(e, name) ==
    CASE e = "HashAlgorithm" /\ name = "Sha256" -> "sha256"
      [] e = "KeyAgreementProtocol" /\ name = "Curve25519" -> "curve25519"
      [] e = "KeyAgreementProtocol" /\ name = "Curve25519HkdfSha256" -> "curve25519-hkdf-sha256"
      [] e = "MessageAuthenticationCode" /\ name = "HkdfHmacSha256" -> "hkdf-hmac-sha256"
      [] e = "MessageAuthenticationCode" /\ name = "HkdfHmacSha256V2"
             -> "org.matrix.msc3783.hkdf-hmac-sha256"
      [] e = "MessageAuthenticationCode" /\ name = "HmacSha256" -> "hmac-sha256"
      [] e = "ShortAuthenticationString" /\ name = "Decimal" -> "decimal"
      [] e = "ShortAuthenticationString" /\ name = "Emoji" -> "emoji"
      [] e = "VerificationMethod" /\ name = "SasV1" -> "m.sas.v1"
      [] e = "VerificationMethod" /\ name = "QrCodeScanV1" -> "m.qr_code.scan.v1"
      [] e = "VerificationMethod" /\ name = "QrCodeShowV1" -> "m.qr_code.show.v1"
      [] e = "VerificationMethod" /\ name = "ReciprocateV1" -> "m.reciprocate.v1"
      [] e = "Method" /\ name = "Crop" -> "crop"
      [] e = "Method" /\ name = "Scale" -> "scale"

\* the known variants of e in this build, as the derive lists them
KnownNames(e) == VariantNames(e, features)

\* C1: a known variant of any open enumeration serializes to its canonical
\* wire string, and parsing that string gives the variant back.
C1_KnownRoundTrip ==
    /\ stage \in {"enum_selected_serialized", "enum_selected_roundtrip"}
           => en.output = CanonicalWire(en.ty, en.value.tag)
    /\ stage = "enum_selected_roundtrip" => en.back = en.value

C1_Witness ==
    /\ stage = "enum_selected_roundtrip"
    /\ en.value = Known("MessageAuthenticationCode", "HkdfHmacSha256V2")
    /\ en.output = "org.matrix.msc3783.hkdf-hmac-sha256"
    /\ en.back = en.value

\* C2: parsing never fails; the result is a known variant exactly when the
\* string is that variant's canonical string, character for character, and
\* otherwise a custom value that is not known and serializes to the string
\* unchanged.
C2_ParseTotalExact ==
    /\ stage \in {"enum_parsed", "enum_parsed_serialized", "enum_parsed_roundtrip"} =>
        /\ en.value.ty = en.ty
        /\ en.value.tag \in KnownNames(en.ty) \cup {"_Custom"}
        /\ is_known(en.value) <=> (\E n \in KnownNames(en.ty) : CanonicalWire(en.ty, n) = en.input)
        /\ is_known(en.value) => CanonicalWire(en.ty, en.value.tag) = en.input
        /\ ~is_known(en.value) => en.value.str = en.input
    /\ stage \in {"enum_parsed_serialized", "enum_parsed_roundtrip"} => en.output = en.input

C2_Witness ==
    /\ stage = "enum_parsed_serialized"
    /\ en.ty = "Method"
    /\ en.input = "CROP"
    /\ ~is_known(en.value)
    /\ en.output = "CROP"

\* what the specification calls equal values
SameValue(a, b) ==
    \/ is_known(a) /\ is_known(b) /\ a.tag = b.tag
    \/ ~is_known(a) /\ ~is_known(b) /\ a.str = b.str

\* C3 as stated: two values of the same open enumeration, whichever it is,
\* compare equal exactly when they are the same known variant or custom
\* values of the same string.
C3_Original ==
    stage = "enum_compared" =>
        /\ en.eq.implemented
        /\ en.eq.equal <=> SameValue(en.value, en.other)

\* C3 as amended: that holds of the five enumerations of the verification
\* module, which derive PartialEq; the thumbnail Method derives none, and
\* its values cannot be compared.
C3_Amended ==
    stage = "enum_compared" =>
        IF en.ty = "Method" THEN ~en.eq.implemented
        ELSE /\ en.eq.implemented
             /\ en.eq.equal <=> SameValue(en.value, en.other)

C3_Witness ==
    /\ stage = "enum_compared"
    /\ en.ty = "HashAlgorithm"
    /\ ~is_known(en.value)
    /\ ~is_known(en.other)
    /\ en.value.str = "SHA256"
    /\ en.eq.implemented
    /\ en.eq.equal


\* the name=value pairs of a query string, as written
QueryParts(q) == {Split(q, "&")[i] : i \in 1..Len(Split(q, "&"))}

HasParam(q, name) == \E part \in QueryParts(q) : StartsWith(part, name \o "=")

\* C4: allow_remote = true is left out of the query and allow_remote = false
\* is written as allow_remote=false; a query without the parameter parses
\* to true and allow_remote=false to false, so the value survives the trip.
C4_AllowRemoteRoundTrip ==
    /\ stage \in {"req_sent", "req_received"} =>
        /\ rq.req.allow_remote => ~HasParam(rq.http.val.query, "allow_remote")
        /\ ~rq.req.allow_remote => "allow_remote=false" \in QueryParts(rq.http.val.query)
    /\ stage = "req_received" =>
        /\ rq.parsed.ok
        /\ rq.parsed.val.allow_remote = rq.req.allow_remote

C4_Witness ==
    /\ stage = "req_received"
    /\ rq.req.allow_remote
    /\ ~HasParam(rq.http.val.query, "allow_remote")
    /\ rq.parsed.val.allow_remote

R0_TEMPLATE == "/_matrix/media/r0/thumbnail/:server_name/:media_id"
V3_TEMPLATE == "/_matrix/media/v3/thumbnail/:server_name/:media_id"

\* C5: the thumbnail path resolves to the r0 template at version 1.0, to the
\* v3 template at 1.1 and every later version, and to UnsupportedVersion,
\* with no template, below 1.0.
C5_VersionFloor ==
    stage \in {"req_sent", "req_received", "req_unsupported"} =>
        /\ rq.version = <<1, 0>> => rq.http.ok /\ rq.http.val.template = R0_TEMPLATE
        /\ VersionLeq(<<1, 1>>, rq.version) => rq.http.ok /\ rq.http.val.template = V3_TEMPLATE
        /\ ~VersionLeq(<<1, 0>>, rq.version) =>
               /\ ~rq.http.ok
               /\ rq.http.err = "UnsupportedVersion"
               /\ rq.http.val = None
               /\ stage = "req_unsupported"

C5_Witness ==
    /\ stage = "req_unsupported"
    /\ rq.version = <<0, 9>>
    /\ rq.http.err = "UnsupportedVersion"

ExampleRequest ==
    /\ rq.req.server_name = "example.org"
    /\ rq.req.media_id = "abc123"
    /\ rq.version = <<1, 1>>

\* C6 as stated: for example.org and abc123 at version 1.1 the path is
\* exactly /v3/thumbnail/example.org/abc123.
C6_Original ==
    stage = "req_sent" /\ ExampleRequest => rq.http.val.path = "/v3/thumbnail/example.org/abc123"

\* C6 as amended: the path is exactly
\* /_matrix/media/v3/thumbnail/example.org/abc123, the whole v3 template
\* with each placeholder replaced by the path field of its name.
C6_Amended ==
    stage = "req_sent" /\ ExampleRequest =>
        rq.http.val.path = "/_matrix/media/v3/thumbnail/example.org/abc123"

C6_Witness ==
    /\ stage = "req_sent"
    /\ ExampleRequest
    /\ rq.http.val.path = "/_matrix/media/v3/thumbnail/example.org/abc123"

\* the request written out field by field from what the URI was made of
ManualRequest ==
    [server_name |-> rq.given.server_name,
     media_id |-> rq.given.media_id,
     method |-> None,
     width |-> rq.width,
     height |-> rq.height,
     allow_remote |-> TRUE,
     max_stall_ms |-> None]

\* C7: from_url(uri, width, height) is, field by field and on the wire, the
\* request Request::new makes from the URI's authority as server name and
\* its path as media id, with no method and allow_remote true.
C7_FromUrlIsNew ==
    rq.via = "from_url" /\ rq.built.ok /\ ~rq.edited =>
        /\ rq.req = ManualRequest
        /\ rq.built.val = Request_new(rq.given.media_id, rq.given.server_name, rq.width, rq.height)
        /\ stage \in {"req_sent", "req_unsupported"} =>
               rq.http = try_into_http_request(ManualRequest, rq.version, features)

C7_Witness ==
    /\ stage = "req_sent"
    /\ rq.via = "from_url"
    /\ ~rq.edited
    /\ rq.uri = "mxc://example.org/abc123"
    /\ rq.width = 64
    /\ rq.height = 64
    /\ rq.req = ManualRequest
    /\ rq.http.val.query = "width=64&height=64"

\* C8: from_url gives MalformedUri and no request whenever the URI has no
\* well-formed authority or no path, and a request only when the URI
\* decomposes; mxc://example.org/abc123 decomposes to example.org, abc123.
C8_FromUrlMalformed ==
    rq.via = "from_url" =>
        /\ rq.built.ok <=> rq.given.wellformed
        /\ ~rq.built.ok =>
               /\ rq.built.err = "MalformedUri"
               /\ rq.built.val = None
               /\ rq.req = NoRequest
               /\ stage = "req_failed"
        /\ rq.uri = "mxc://example.org/abc123" =>
               /\ rq.built.ok
               /\ rq.built.val.server_name = "example.org"
               /\ rq.built.val.media_id = "abc123"

C8_Witness ==
    /\ stage = "req_failed"
    /\ rq.via = "from_url"
    /\ rq.uri = "mxc:///abc123"
    /\ rq.built.err = "MalformedUri"

\* the template after its literal prefix
PlaceholderTail(template) ==
    SubSeq(template, Len(LiteralPrefix(template)) + 1, Len(template))

\* C9: the path history is not empty and strictly ascending in version;
\* every template has the placeholders server_name and media_id, once each,
\* which are the path fields of Request; templates differ in their literal
\* prefix only; the template a request is sent under is one of them.  The
\* history and the fields are static data: they are looked at before a
\* call and on every request about to be sent.
C9_PathHistoryWellFormed ==
    LET h == METADATA.history IN
    /\ stage \in {"idle", "req_built", "req_edited"} =>
           /\ Len(h) > 0
           /\ \A i, j \in 1..Len(h) : i < j =>
                  VersionLeq(h[i].version, h[j].version) /\ h[i].version # h[j].version
           /\ \A i \in 1..Len(h) :
                  /\ Placeholders(h[i].path) = {"server_name", "media_id"}
                  /\ Placeholders(h[i].path) = PathFieldNames
                  /\ Len(PlaceholderSeq(h[i].path)) = Cardinality(PathFieldNames)
           /\ \A i, j \in 1..Len(h) : PlaceholderTail(h[i].path) = PlaceholderTail(h[j].path)
    /\ stage \in {"req_sent", "req_received"} =>
           /\ \E i \in 1..Len(h) : rq.http.val.template = h[i].path
           /\ Placeholders(rq.http.val.template) = PathFieldNames

C9_Witness ==
    /\ stage = "req_sent"
    /\ rq.http.val.template = METADATA.history[1].path
    /\ rq.http.val.path = "/_matrix/media/r0/thumbnail/matrix.org:8448/Xy-_9"

\* C10: Response::new(b) has body b, no content type and the policy
\* cross-origin; on the wire it carries no Content-Type header and one
\* Cross-Origin-Resource-Policy header, of that value.
C10_ResponseNew ==
    /\ stage \in {"resp_built", "resp_sent", "resp_received"} /\ ~rs.edited =>
        /\ rs.resp.file = rs.file
        /\ rs.resp.content_type = None
        /\ rs.resp.cross_origin_resource_policy = Some("cross-origin")
    /\ stage \in {"resp_sent", "resp_received"} /\ ~rs.edited =>
        /\ rs.http.body = rs.file
        /\ \A i \in 1..Len(rs.http.headers) : rs.http.headers[i][1] # "content-type"
        /\ Cardinality({i \in 1..Len(rs.http.headers) :
                           rs.http.headers[i][1] = "cross-origin-resource-policy"}) = 1
        /\ \A i \in 1..Len(rs.http.headers) :
               rs.http.headers[i][1] = "cross-origin-resource-policy"
                   => rs.http.headers[i][2] = "cross-origin"

C10_Witness ==
    /\ stage = "resp_sent"
    /\ ~rs.edited
    /\ rs.file = <<0, 255>>
    /\ rs.http.body = <<0, 255>>
    /\ rs.http.headers = <<<<"cross-origin-resource-policy", "cross-origin">>>>


====
